---- MODULE Spec2Model ----
(***************************************************************************)
(* Model of the UniversalScraper crawl orchestration                       *)
(* (src/src/services/universal-scraper.js): one scraper object and the one *)
(* invocation of scrapeMultipleUrls it gets (scrapeAndStoreItems builds a  *)
(* new UniversalScraper for every call).  An action is the code between    *)
(* two awaits whose interleaving with the detail-enrichment tasks matters. *)
(* Every awaited browser call (launch, newContext, route, newPage, goto,   *)
(* close) either succeeds or raises: the outcome is the environment's.     *)
(* Spec follows a whole crawl; OptionSpec the same crawl under every value *)
(* of options.detailed; ScrollSpec, IdSpec, CardSpec and DedupSpec follow  *)
(* one call of scrollToLoadMore, extractLinkedInId, the basic extraction   *)
(* loop and deduplicateItems (src/unnamed/part_003) on bounded inputs.     *)
(***************************************************************************)
EXTENDS Integers, Sequences, FiniteSets, Bags, TLC

\* ------------------------------------------------------------------ bounds
\* longest URL list handed to scrapeMultipleUrls
MaxUrls == 2
\* most item cards one listing page exposes
MaxCards == 2
\* largest totalItemsLimit configured
MaxTotal == 2

Min(a, b) == IF a <= b THEN a ELSE b

VARIABLES
  \* configuration read by the constructor
  maxItemsPerUrl, totalItemsLimit, concurrencyLimit,
  \* the scraper object's fields
  browser, context,
  \* the environment: the launched browser process and its pages
  browserOpen, listingOpen, leakedDetail,
  \* the running invocation of scrapeMultipleUrls
  pc, outcome, nUrls, urlIdx, url, detailed, category, allItems,
  \* the running scrapeFromUrl
  cards, basicItemsData, tasks, items,
  \* the limiters abandoned by a rejected Promise.all (a bag), their tasks
  \* still running
  orphans,
  \* observations of the running invocation (history, read by the properties);
  \* detailCall is the enrichment call that returned in the last step, if any
  launched, closed, accum, limitAt, navFailed, detailCall,
  \* the inter-URL delays the invocation has taken
  delays,
  \* a running scrollToLoadMore(page, platform): its arguments and locals, and
  \* what the page has shown so far (the heights measured, whether a
  \* show-more / next-page control was ever found, the loop iterations begun)
  scrollPc, scrollPlatform, previousHeight, scrollAttempts,
  iterations, measured, controlSeen,
  \* the last pass through the loop body: the height it measured, what the
  \* locator of the control found if it was consulted ("none" if not), and
  \* whether the control was clicked
  currentHeight, lookup, clicked,
  \* a call of extractLinkedInId(urlOrUrn) and the value it returned
  idPc, urlOrUrn, itemId,
  \* a call of deduplicateItems(scrapedItems, existingItems) and its result,
  \* and the result of deduplicating that result against existingItems again
  dedupPc, scrapedItems, existingItems, newItems, newItemsAgain,
  \* a call of insertRecords(records) of one of the database clients: the
  \* implementation, its arguments and locals, the records a create or a bulk
  \* post was issued for, the records the store has written, and the value
  \* returned
  insPc, insImpl, records, batchSize, insIdx, attempted, insertedRecords,
  insReturn, written,
  \* the rows of the results table, each with the run that created it (0: the
  \* row was there before), and the runs of scrapeAndStoreItems: where each
  \* is, the platform groups it has left, and its locals
  store, run,
  \* one scraper object used by two scrapeMultipleUrls invocations at once:
  \* its fields this.browser and this.context (0: null, else the browser
  \* launched b-th, or its context), the browsers launched and those still
  \* open, and where each invocation is
  objBrowser, objContext, launchCount, openBrowsers, inv,
  \* a call of extractLinkedInDetailedData(basicData), field by field: the
  \* argument, what the detail page shows, the value returned and whether
  \* it was returned from the try block
  detPc, basicData, detailPage, detResult, detSuccess,
  \* a call of randomDelay from one of its call sites: the arguments it
  \* received, and the milliseconds it waits
  dlPc, dlSite, dlMin, dlMax, delay,
  \* a call of detectPlatform(url) and the value it returned
  dtPc, dtUrl, dtPlatform,
  \* the loop of extractLinkedInDetailedData over the location-metadata
  \* elements, one innerText() at a time: the texts of the elements, how
  \* many of them were read, and the local workType
  wtPc, workplaceTypes, wtRead, workType,
  \* the search configurations of one platform that a run of
  \* scrapeAndStoreItems scrapes, in the order of their URLs
  configs

cfgVars == <<maxItemsPerUrl, totalItemsLimit, concurrencyLimit>>
objVars == <<browser, context>>
envVars == <<browserOpen, listingOpen, leakedDetail>>
callVars == <<pc, outcome, nUrls, urlIdx, url, detailed, category,
             allItems>>
urlVars == <<cards, basicItemsData, tasks, items>>
obsVars == <<launched, closed, accum, limitAt, navFailed, detailCall,
            delays>>
scrollVars == <<scrollPc, scrollPlatform, previousHeight, scrollAttempts,
                iterations, measured, controlSeen, currentHeight, lookup,
                clicked>>
idVars == <<idPc, urlOrUrn, itemId>>
dedupVars == <<dedupPc, scrapedItems, existingItems, newItems, newItemsAgain>>
\* the variables of the functions taken one call at a time
insertVars == <<insPc, insImpl, records, batchSize, insIdx, attempted,
                insertedRecords, insReturn, written>>
\* the variables of what surrounds the scraper
storeVars == <<store, run>>
sessVars == <<objBrowser, objContext, launchCount, openBrowsers, inv>>
detailVars == <<detPc, basicData, detailPage, detResult, detSuccess>>
delayVars == <<dlPc, dlSite, dlMin, dlMax, delay>>
detectVars == <<dtPc, dtUrl, dtPlatform>>
workTypeVars == <<wtPc, workplaceTypes, wtRead, workType>>
configVars == <<configs>>
extraVars == <<delayVars, detectVars, workTypeVars, configVars>>
sideVars == <<insertVars, storeVars, sessVars, detailVars, extraVars>>
fnVars == <<scrollVars, idVars, dedupVars, sideVars>>
crawlVars == <<cfgVars, objVars, envVars, callVars, urlVars, orphans, obsVars>>
vars == <<crawlVars, fnVars>>
\* what a call of insertRecords, and what the runs of the job, leave alone
frameInsert == <<crawlVars, scrollVars, idVars, dedupVars, storeVars,
                 sessVars, detailVars, extraVars>>
frameStore == <<crawlVars, scrollVars, idVars, dedupVars, insertVars,
                sessVars, detailVars, extraVars>>
frameSession == <<crawlVars, scrollVars, idVars, dedupVars, insertVars,
                  storeVars, detailVars, extraVars>>
frameDetail == <<crawlVars, scrollVars, idVars, dedupVars, insertVars,
                 storeVars, sessVars, extraVars>>
frameDelay == <<crawlVars, scrollVars, idVars, dedupVars, insertVars,
                storeVars, sessVars, detailVars, detectVars, workTypeVars,
                configVars>>
frameDetect == <<crawlVars, scrollVars, idVars, dedupVars, insertVars,
                 storeVars, sessVars, detailVars, delayVars, workTypeVars,
                 configVars>>
frameWorkType == <<crawlVars, scrollVars, idVars, dedupVars, insertVars,
                   storeVars, sessVars, detailVars, delayVars, detectVars,
                   configVars>>

\* ------------------------------------------------------- platform registry
\* A URL is modelled by the set of pattern texts it contains.
Urls == {{"linkedin.com"}, {"indeed.com"}, {}}

\* this.platformPatterns, in registration (Object.entries) order
platformPatterns == <<[platform |-> "linkedin", urlPattern |-> "linkedin.com"],
                      [platform |-> "indeed", urlPattern |-> "indeed.com"]>>

\* (mutant) the last platform whose pattern matches
FirstMatchLast(u, i) ==
  LET hits == {j \in i..Len(platformPatterns) :
                 platformPatterns[j].urlPattern \in u}
  IN IF hits = {} THEN "null"
     ELSE platformPatterns[CHOOSE j \in hits : \A h \in hits : h <= j].platform

RECURSIVE FirstMatch(_, _)
FirstMatch(u, i) ==
  IF i > Len(platformPatterns) THEN "null"
  ELSE IF platformPatterns[i].urlPattern \in u THEN platformPatterns[i].platform
  ELSE FirstMatch(u, i + 1)

\* a URL that no pattern of the registry matches
NoPattern(u) == \A i \in 1..Len(platformPatterns) : platformPatterns[i].urlPattern \notin u

\* (mutant) an unmatched URL falls back to the first registered platform
detectPlatformDefault(u) ==
  IF FirstMatch(u, 1) = "null" THEN platformPatterns[1].platform ELSE FirstMatch(u, 1)

\* detectPlatform(url): the first platform whose pattern matches, else null
detectPlatform(u) == FirstMatch(u, 1)

\* ------------------------------------------------------------- identifiers
\* longest href / URN followed, in pieces
MaxStr == 4

\* A string is the sequence of its pieces: the URN prefix, the job path, a
\* run of digits, a ':' and a piece of text with no ':' and no digit.
UrnPrefix == "urn:li:jobPosting:"
JobsView == "/jobs/view/"
Digits == "3544610012"
Colon == ":"
Text == "a"
Pieces == {UrnPrefix, JobsView, Digits, Colon, Text}
Strings == UNION {[1..n -> Pieces] : n \in 0..MaxStr}

\* s.includes(piece)
Includes(s, piece) == \E i \in 1..Len(s) : s[i] = piece

\* s.split(":").pop(): what follows the last ':' (the URN prefix ends in one)
RECURSIVE SplitPop(_, _)
SplitPop(s, i) ==
  IF i = 0 THEN s
  ELSE IF s[i] \in {Colon, UrnPrefix} THEN SubSeq(s, i + 1, Len(s))
  ELSE SplitPop(s, i - 1)

\* the digits \d+ takes from position i on
RECURSIVE DigitRun(_, _)
DigitRun(s, i) ==
  IF i > Len(s) \/ s[i] # Digits THEN <<>>
  ELSE <<Digits>> \o DigitRun(s, i + 1)

\* s.match(/\/jobs\/view\/(\d+)/): group 1 of the leftmost match, or null
RECURSIVE MatchJobsView(_, _)
MatchJobsView(s, i) ==
  IF i > Len(s) THEN <<>>
  ELSE IF s[i] = JobsView /\ DigitRun(s, i + 1) # <<>> THEN <<DigitRun(s, i + 1)>>
  ELSE MatchJobsView(s, i + 1)

\* (mutant) the path test is made before the URN test
extractLinkedInIdPathFirst(s) ==
  IF Includes(s, JobsView) THEN MatchJobsView(s, 1)
  ELSE IF Includes(s, UrnPrefix) THEN <<SplitPop(s, Len(s))>>
  ELSE <<>>

\* extractLinkedInId(urlOrUrn): <<id>>, or <<>> for null
extractLinkedInId(s) ==
  IF Includes(s, UrnPrefix) THEN <<SplitPop(s, Len(s))>>
  ELSE IF Includes(s, JobsView) THEN MatchJobsView(s, 1)
  ELSE <<>>

\* ---------------------------------------------------------------- records
\* A card: its link element (missing, without href attribute, or present
\* with the href), and the required element it lacks besides, if any.
Hrefs == {<<UrnPrefix, Digits>>, <<JobsView, Digits, Text>>,
          <<JobsView, Text, Digits>>, <<Text>>}
Elements == {"company-name", "location", "time"}
Cards ==
  {[link |-> "missing", href |-> <<>>, lacks |-> "none"]}
  \cup [link : {"nohref"}, href : {<<>>}, lacks : Elements \cup {"none"}]
  \cup [link : {"present"}, href : Hrefs, lacks : Elements \cup {"none"}]

\* the cards of a crawl: one that is well formed, one with no link element
WellFormedCard == [link |-> "present", href |-> <<JobsView, Digits, Text>>,
                   lacks |-> "none"]
LinklessCard == [link |-> "missing", href |-> <<>>, lacks |-> "none"]
CardKinds == {WellFormedCard, LinklessCard}

CardLists == UNION {[1..n -> CardKinds] : n \in 1..MaxCards}

BasicKeys == {"postedTime"}
DetailKeys == {"contractType", "experienceLevel", "workType", "industry",
               "applicationsCount", "salary"}

\* the values options.category is given: absent, null, "" and a tag
Categories == {"undefined", "null", "", "jobs"}

\* (mutant) the option is copied as it is, without the default
SourceCategoryRaw(c) == c

\* options.category || ""
SourceCategory(c) == IF c \in {"undefined", "null", ""} THEN "" ELSE c

\* extractLinkedInBasicData(card, options): the record, or null (<<>>) when a
\* read raises (the catch returns null): linkElement is null, the href is
\* null (extractLinkedInId(null) raises) or a later element is null.  u, c
\* name the card: the u-th URL's c-th card.
extractLinkedInBasicData(card, u, c) ==
  IF card.link # "present" \/ card.lacks # "none" THEN <<>>
  ELSE <<[u |-> u, c |-> c, id |-> extractLinkedInId(card.href),
          platform |-> "linkedin", category |-> SourceCategory(category),
          description |-> "", orgId |-> "", details |-> BasicKeys]>>

\* extractBasicData(card, platform, options): dispatch on the platform
extractBasicData(card, platform, u, c) ==
  IF platform = "linkedin" THEN extractLinkedInBasicData(card, u, c)
  ELSE <<>>

\* (mutant) the slice is forgotten: every card is processed
CardsToProcessNoCap(cs) == cs

\* cards.slice(0, this.maxItemsPerUrl)
CardsToProcess(cs) == SubSeq(cs, 1, Min(Len(cs), maxItemsPerUrl))

\* (mutant) the loop is left at the first card that yields no record
RECURSIVE BasicLoopUntilNull(_, _, _, _)
BasicLoopUntilNull(cs, platform, u, c) ==
  IF c > Len(cs) \/ extractBasicData(cs[c], platform, u, c) = <<>> THEN <<>>
  ELSE extractBasicData(cs[c], platform, u, c)
         \o BasicLoopUntilNull(cs, platform, u, c + 1)

RECURSIVE BasicLoop(_, _, _, _)
BasicLoop(cs, platform, u, c) ==
  IF c > Len(cs) THEN <<>>
  ELSE extractBasicData(cs[c], platform, u, c) \o BasicLoop(cs, platform, u, c + 1)

\* the for loop over cardsToProcess: push every non-null basicData
ExtractBasics(cs, platform, u) == BasicLoop(CardsToProcess(cs), platform, u, 1)

\* the object returned by extractLinkedInDetailedData on success
Enriched(b) == [b EXCEPT !.description = "text", !.orgId = "org",
                         !.details = b.details \cup DetailKeys]


\* -------------------------------------------------------------- the limiter
\* pLimit(this.concurrencyLimit) with basicItemsData.map(limit(...)): the
\* first concurrencyLimit tasks start (each calls context.newPage), the
\* others wait in submission order.
Submit(basics) ==
  [i \in 1..Len(basics) |->
     [st |-> IF i <= concurrencyLimit THEN "opening" ELSE "queued",
      basic |-> basics[i], res |-> <<>>]]

Queued(ts) == {i \in 1..Len(ts) : ts[i].st = "queued"}
Count(ts, st) == Cardinality({i \in 1..Len(ts) : ts[i].st = st})

\* a settled task frees its slot: the limiter starts the head of its queue
AdmitNext(ts) ==
  IF Queued(ts) = {} THEN ts
  ELSE LET h == CHOOSE i \in Queued(ts) : \A j \in Queued(ts) : i <= j
       IN [ts EXCEPT ![h].st = "opening"]

AllDone(ts) == \A i \in 1..Len(ts) : ts[i].st = "done"
\* (mutant) the results are taken from the last task to the first
ResultsBackwards(ts) == [i \in 1..Len(ts) |-> ts[Len(ts) + 1 - i].res[1]]

Results(ts) == [i \in 1..Len(ts) |-> ts[i].res[1]]

\* what is left of a limiter whose Promise.all has rejected
Abandoned(ts) == [q |-> Count(ts, "queued"), o |-> Count(ts, "opening"),
                  p |-> Count(ts, "open"), alive |-> TRUE]
Busy(l) == l.q + l.o + l.p > 0
\* a limiter with nothing left to run is forgotten
With(ls, l) == IF Busy(l) THEN ls (+) SetToBag({l}) ELSE ls
Replace(ls, old, new) == With(ls (-) SetToBag({old}), new)
OrphanAdmit(l) == IF l.q > 0 THEN [l EXCEPT !.q = l.q - 1, !.o = l.o + 1] ELSE l

RECURSIVE SumOver(_, _)
SumOver(ls, f) ==
  IF BagToSet(ls) = {} THEN 0
  ELSE LET l == CHOOSE x \in BagToSet(ls) : TRUE
           n == CopiesIn(l, ls)
           v == IF f = "q" THEN l.q ELSE IF f = "o" THEN l.o ELSE l.p
       IN n * v + SumOver([x \in DOMAIN ls \ {l} |-> ls[x]], f)

\* enrichment tasks started and not yet finished, over every limiter
Executing == Count(tasks, "opening") + Count(tasks, "open")
             + SumOver(orphans, "o") + SumOver(orphans, "p")
\* enrichment tasks waiting in a limiter's queue
Waiting == Count(tasks, "queued") + SumOver(orphans, "q")
\* detail pages open: of running tasks, and left open by a failed close
DetailOpen == Count(tasks, "open") + SumOver(orphans, "p") + leakedDetail

\* ------------------------------------------------------ scrapeMultipleUrls
\* (mutant) the comparison is strict
ReachedLimitStrict(all) == Len(all) > totalItemsLimit

\* allItems.length >= this.totalItemsLimit
ReachedLimit(all) == Len(all) >= totalItemsLimit

\* allItems.slice(0, this.totalItemsLimit)
Truncate(all) == SubSeq(all, 1, Min(Len(all), totalItemsLimit))

NoCall == [err |-> "none", in |-> <<>>, out |-> <<>>, open |-> FALSE]

\* scrapeFromUrl has returned its list `its` for URL number idx: push, check
\* the total against the limit, truncate and break, or delay and loop.
Return(its, idx) ==
  LET all == allItems \o its IN
  /\ accum' = accum \o its
  /\ IF ReachedLimit(all)
     THEN \* break
          /\ allItems' = Truncate(all) /\ pc' = "finally" /\ limitAt' = idx
          /\ UNCHANGED delays
     ELSE \* await this.randomDelay(5000, 10000)
          /\ allItems' = all /\ pc' = "loop" /\ UNCHANGED limitAt
          /\ delays' = delays + 1

ResetUrl ==
  /\ cards' = <<>> /\ basicItemsData' = <<>> /\ tasks' = <<>> /\ items' = <<>>

\* the values options.detailed is given: absent, true, false, 0
DetailedOptions == {"undefined", "true", "false", "0"}
\* one value for each outcome of the test of scrapeFromUrl
DetailedChoices == {"undefined", "false"}

\* (mutant) the option is tested for truth: if (options.detailed)
EnrichmentWantedIfTruthy(opt) == opt = "true"

\* options.detailed !== false
EnrichmentWanted(opt) == opt # "false"

\* scrapeMultipleUrls(urls, options) up to its try block: initBrowser when
\* this.browser is null.  n is urls.length, det is options.detailed, cat is
\* options.category.
Invoke(n, det, cat) ==
  /\ pc = "idle"
  /\ UNCHANGED fnVars
  /\ nUrls' = n /\ detailed' = det /\ category' = cat
  /\ urlIdx' = 0 /\ url' = {}
  /\ allItems' = <<>> /\ ResetUrl
  /\ closed' = 0 /\ accum' = <<>> /\ limitAt' = 0 /\ navFailed' = FALSE
  /\ delays' = 0
  /\ detailCall' = NoCall
  /\ UNCHANGED <<cfgVars, listingOpen, leakedDetail, orphans>>
  /\ IF browser # "null"
     THEN \* a browser is already set: initBrowser is skipped
          /\ pc' = "loop" /\ outcome' = "none" /\ launched' = FALSE
          /\ UNCHANGED <<browser, context, browserOpen>>
     ELSE \/ \* chromium.launch raises
             /\ pc' = "done" /\ outcome' = "initFailed" /\ launched' = FALSE
             /\ UNCHANGED <<browser, context, browserOpen>>
          \/ \* browser.newContext raises: this.browser is already assigned
             /\ pc' = "done" /\ outcome' = "initFailed" /\ launched' = TRUE
             /\ browser' = "set" /\ browserOpen' = TRUE /\ UNCHANGED context
          \/ \* context.route raises: browser and context are assigned
             /\ pc' = "done" /\ outcome' = "initFailed" /\ launched' = TRUE
             /\ browser' = "set" /\ browserOpen' = TRUE /\ context' = "set"
          \/ \* initBrowser completes
             /\ pc' = "loop" /\ outcome' = "none" /\ launched' = TRUE
             /\ browser' = "set" /\ browserOpen' = TRUE /\ context' = "set"

\* the head of `for (const url of urls)` and scrapeFromUrl up to its try
NextUrl ==
  /\ pc = "loop"
  /\ UNCHANGED fnVars
  /\ UNCHANGED <<cfgVars, objVars, browserOpen, leakedDetail, outcome,
                 nUrls, detailed, category, orphans, launched, closed, detailCall>>
  /\ ResetUrl
  /\ IF urlIdx = nUrls
     THEN \* the list is exhausted
          /\ pc' = "finally"
          /\ UNCHANGED <<urlIdx, url, allItems, listingOpen, accum, delays, limitAt,
                         navFailed>>
     ELSE \E u \in Urls :
          /\ urlIdx' = urlIdx + 1 /\ url' = u /\ navFailed' = FALSE
          /\ IF detectPlatform(u) = "null"
             THEN \* unsupported platform: return []
                  /\ Return(<<>>, urlIdx + 1)
                  /\ UNCHANGED listingOpen
             ELSE /\ UNCHANGED <<allItems, accum, delays, limitAt>>
                  /\ \/ \* this.context.newPage() raises (context null, or
                        \* the browser refuses): caught by scrapeMultipleUrls
                        /\ pc' = "finally" /\ UNCHANGED listingOpen
                     \/ \* the listing page is open
                        /\ context # "null"
                        /\ pc' = "listing" /\ listingOpen' = listingOpen + 1

\* scrapeFromUrl's try block up to the submission of the enrichment tasks
LoadListing ==
  /\ pc = "listing"
  /\ UNCHANGED fnVars
  /\ UNCHANGED <<cfgVars, objVars, envVars, outcome, nUrls, urlIdx, url,
                 detailed, category, allItems, orphans, launched, closed, accum, delays, limitAt,
                 detailCall>>
  /\ \/ \* page.goto or page.waitForSelector raises or times out
        /\ navFailed' = TRUE
        /\ pc' = "closing" /\ ResetUrl
     \/ \* scrollToLoadMore or page.$$ raises
        /\ pc' = "closing" /\ ResetUrl /\ UNCHANGED navFailed
     \/ \* the listing is loaded and exposes the cards cs
        \E cs \in CardLists :
        LET basics == ExtractBasics(cs, detectPlatform(url), urlIdx) IN
        /\ cards' = cs /\ basicItemsData' = basics
        /\ UNCHANGED navFailed
        /\ IF EnrichmentWanted(detailed) /\ basics # <<>>
           THEN tasks' = Submit(basics) /\ items' = <<>> /\ pc' = "await"
           ELSE tasks' = <<>> /\ items' = basics /\ pc' = "closing"


\* ---------------------------------------------- extractLinkedInDetailedData
\* The enrichment tasks have all resolved: Promise.all resolves with the
\* results in submission order, and items.push(...) takes them.
Settle(ts) ==
  IF AllDone(ts)
  THEN tasks' = <<>> /\ items' = Results(ts) /\ pc' = "closing"
  ELSE tasks' = ts /\ UNCHANGED <<items, pc>>

\* a task rejects: Promise.all rejects at once, scrapeFromUrl's catch logs
\* and its finally runs, while the limiter goes on running what it holds
Reject(ts) ==
  /\ tasks' = <<>> /\ items' = <<>> /\ pc' = "closing"
  /\ orphans' = With(orphans, Abandoned(ts))

\* what extractLinkedInDetailedData hands back from its catch block
CatchResult(b) == b

\* the first await of a started task: this.context.newPage()
TaskNewPage(i) ==
  /\ pc = "await" /\ i \in 1..Len(tasks) /\ tasks[i].st = "opening"
  /\ UNCHANGED fnVars
  /\ UNCHANGED <<cfgVars, objVars, envVars, outcome, nUrls, urlIdx, url,
                 detailed, category, allItems, orphans, launched, closed, accum, delays, limitAt,
                 navFailed>>
  /\ cards' = <<>> /\ basicItemsData' = <<>>
  /\ \/ \* the page is open
        /\ tasks' = [tasks EXCEPT ![i].st = "open"]
        /\ detailCall' = NoCall
        /\ UNCHANGED <<items, pc>>
     \/ \* newPage raises: page is null, the catch returns basicData
        LET b == tasks[i].basic
            r == CatchResult(b) IN
        /\ detailCall' = [err |-> "newPage", in |-> <<b>>, out |-> <<r>>,
                          open |-> FALSE]
        /\ Settle(AdmitNext([tasks EXCEPT ![i].st = "done", ![i].res = <<r>>]))

\* the rest of a task whose page is open: goto, the reads, page.close()
TaskFinish(i) ==
  /\ pc = "await" /\ i \in 1..Len(tasks) /\ tasks[i].st = "open"
  /\ UNCHANGED fnVars
  /\ UNCHANGED <<cfgVars, objVars, browserOpen, listingOpen, outcome,
                 nUrls, urlIdx, url, detailed, category, allItems, launched, closed,
                 accum, delays, limitAt, navFailed>>
  /\ cards' = <<>> /\ basicItemsData' = <<>>
  /\ LET b == tasks[i].basic
         done(r) == AdmitNext([tasks EXCEPT ![i].st = "done", ![i].res = <<r>>])
         gone == AdmitNext([tasks EXCEPT ![i].st = "done"])
     IN
     \/ \* every read succeeds and page.close() succeeds: the enriched record
        /\ detailCall' = [err |-> "none", in |-> <<b>>, out |-> <<Enriched(b)>>,
                          open |-> FALSE]
        /\ Settle(done(Enriched(b)))
        /\ UNCHANGED <<leakedDetail, orphans>>
     \/ \* goto or a read raises; the catch closes the page, returns basicData
        /\ detailCall' = [err |-> "nav", in |-> <<b>>, out |-> <<CatchResult(b)>>,
                          open |-> FALSE]
        /\ Settle(done(CatchResult(b)))
        /\ UNCHANGED <<leakedDetail, orphans>>
     \/ \* page.close() of the try raises; the close of the catch succeeds
        /\ detailCall' = [err |-> "close", in |-> <<b>>, out |-> <<CatchResult(b)>>,
                          open |-> FALSE]
        /\ Settle(done(CatchResult(b)))
        /\ UNCHANGED <<leakedDetail, orphans>>
     \/ \* goto or a read raises, and page.close() of the catch raises too:
        \* the task rejects and its page stays open
        /\ detailCall' = [err |-> "nav", in |-> <<b>>, out |-> <<>>, open |-> TRUE]
        /\ leakedDetail' = leakedDetail + 1
        /\ Reject(gone)
     \/ \* page.close() raises in the try and again in the catch
        /\ detailCall' = [err |-> "close", in |-> <<b>>, out |-> <<>>, open |-> TRUE]
        /\ leakedDetail' = leakedDetail + 1
        /\ Reject(gone)

\* a started task of an abandoned limiter awaits newPage
OrphanNewPage(l) ==
  /\ BagIn(l, orphans) /\ l.o > 0
  /\ UNCHANGED fnVars
  /\ UNCHANGED <<cfgVars, objVars, envVars, callVars, urlVars, launched, closed,
                 accum, delays, limitAt, navFailed>>
  /\ detailCall' = NoCall
  /\ \/ \* the page is open (the browser is still there)
        /\ l.alive
        /\ orphans' = Replace(orphans, l, [l EXCEPT !.o = l.o - 1, !.p = l.p + 1])
     \/ \* newPage raises (or the browser is gone): the task returns basicData
        /\ orphans' = Replace(orphans, l, OrphanAdmit([l EXCEPT !.o = l.o - 1]))

\* a task of an abandoned limiter with its page open finishes
OrphanFinish(l) ==
  /\ BagIn(l, orphans) /\ l.p > 0
  /\ UNCHANGED fnVars
  /\ UNCHANGED <<cfgVars, objVars, browserOpen, listingOpen, callVars, urlVars,
                 launched, closed, accum, delays, limitAt, navFailed>>
  /\ detailCall' = NoCall
  /\ orphans' = Replace(orphans, l, OrphanAdmit([l EXCEPT !.p = l.p - 1]))
  /\ \/ \* its page is closed (on success or in the catch)
        UNCHANGED leakedDetail
     \/ \* page.close() of the catch raises: the page stays open
        leakedDetail' = leakedDetail + 1

\* ------------------------------------------------- scrapeFromUrl's finally
CloseListing ==
  /\ pc = "closing"
  /\ UNCHANGED fnVars
  /\ UNCHANGED <<cfgVars, objVars, browserOpen, leakedDetail, outcome,
                 nUrls, urlIdx, url, detailed, category, orphans, launched, closed,
                 navFailed>>
  /\ ResetUrl /\ detailCall' = NoCall
  /\ \/ \* page.close() succeeds: return items
        /\ listingOpen' = listingOpen - 1
        /\ Return(items, urlIdx)
     \/ \* page.close() raises: caught by scrapeMultipleUrls, the loop ends
        /\ pc' = "finally"
        /\ UNCHANGED <<listingOpen, allItems, accum, delays, limitAt>>

\* the pages of a closed browser are closed; its tasks can only fail
Dead(l) == [q |-> l.q, o |-> l.o + l.p, p |-> 0, alive |-> FALSE]

RECURSIVE KillAll(_)
KillAll(ls) ==
  IF BagToSet(ls) = {} THEN EmptyBag
  ELSE LET l == CHOOSE x \in BagToSet(ls) : TRUE
           one == [x \in {Dead(l)} |-> CopiesIn(l, ls)]
       IN one (+) KillAll([x \in DOMAIN ls \ {l} |-> ls[x]])

\* ---------------------------------------------- scrapeMultipleUrls' finally
Finally ==
  /\ pc = "finally"
  /\ UNCHANGED fnVars
  /\ pc' = "done"
  /\ UNCHANGED <<cfgVars, nUrls, urlIdx, url, detailed, category, allItems,
                 urlVars, launched, accum, delays, limitAt, navFailed>>
  /\ detailCall' = NoCall
  /\ \/ \* browser.close() succeeds (or this.browser is null): return allItems
        /\ outcome' = "returned"
        /\ IF browser # "null"
           THEN /\ browser' = "null" /\ context' = "null"
                /\ browserOpen' = FALSE /\ closed' = closed + 1
                /\ listingOpen' = 0 /\ leakedDetail' = 0
                /\ orphans' = KillAll(orphans)
           ELSE UNCHANGED <<objVars, envVars, orphans, closed>>
     \/ \* browser.close() raises: the two assignments after it are skipped
        /\ browser # "null"
        /\ outcome' = "closeFailed"
        /\ UNCHANGED <<objVars, envVars, orphans, closed>>

\* ------------------------------------------------------------ specification
\* no scrollToLoadMore, extractLinkedInId or deduplicateItems call is followed
NoScroll ==
  /\ scrollPc = "none" /\ scrollPlatform = "null" /\ previousHeight = 0
  /\ scrollAttempts = 0 /\ iterations = 0 /\ measured = {}
  /\ controlSeen = FALSE
  /\ currentHeight = 0 /\ lookup = "none" /\ clicked = FALSE
NoIdCall == idPc = "none" /\ urlOrUrn = <<>> /\ itemId = <<>>
NoDedupCall ==
  /\ dedupPc = "none" /\ scrapedItems = <<>> /\ existingItems = <<>>
  /\ newItems = <<>> /\ newItemsAgain = <<>>
\* no insertRecords call is followed
NoInsertCall ==
  /\ insPc = "none" /\ insImpl = "none" /\ records = <<>> /\ batchSize = 0
  /\ insIdx = 0 /\ attempted = {} /\ insertedRecords = <<>>
  /\ insReturn = <<>> /\ written = <<>>
\* no run of scrapeAndStoreItems is followed
Runs == {1, 2}
NotTriggered == [pc |-> "idle", groups |-> 0, scrapedItems |-> <<>>,
                 existingItems |-> <<>>, newItems |-> <<>>, idx |-> 0]
NoRun == store = <<>> /\ run = [r \in Runs |-> NotTriggered]
\* no object is shared by two invocations
Invocations == {1, 2}
NotCalled == [pc |-> "idle", left |-> 0, mine |-> 0, closing |-> 0]
NoSharing ==
  /\ objBrowser = 0 /\ objContext = 0 /\ launchCount = 0
  /\ openBrowsers = {} /\ inv = [a \in Invocations |-> NotCalled]
\* no extractLinkedInDetailedData call is followed field by field
NoDetailCall ==
  /\ detPc = "none" /\ basicData = <<>> /\ detailPage = <<>>
  /\ detResult = <<>> /\ detSuccess = FALSE
\* no randomDelay call is followed
NoDelayCall ==
  dlPc = "none" /\ dlSite = "none" /\ dlMin = 0 /\ dlMax = 0 /\ delay = 0
\* no detectPlatform call is followed
NoDetectCall == dtPc = "none" /\ dtUrl = <<>> /\ dtPlatform = "none"
\* no loop over location-metadata elements is followed
NoWorkTypeLoop ==
  wtPc = "none" /\ workplaceTypes = <<>> /\ wtRead = 0 /\ workType = <<>>
\* no platform's configurations are followed
NoConfigs == configs = <<>>
NoExtraCall == NoDelayCall /\ NoDetectCall /\ NoWorkTypeLoop /\ NoConfigs
NoSideCall ==
  NoInsertCall /\ NoRun /\ NoSharing /\ NoDetailCall /\ NoExtraCall

Init ==
  /\ maxItemsPerUrl \in 1..MaxCards
  /\ totalItemsLimit \in 0..MaxTotal
  /\ concurrencyLimit \in 1..MaxCards
  /\ browser = "null" /\ context = "null"
  /\ browserOpen = FALSE /\ listingOpen = 0 /\ leakedDetail = 0
  /\ pc = "idle" /\ outcome = "none" /\ nUrls = 0 /\ urlIdx = 0
  /\ url = {} /\ detailed = "undefined" /\ category = "undefined"
  /\ allItems = <<>>
  /\ cards = <<>> /\ basicItemsData = <<>> /\ tasks = <<>> /\ items = <<>>
  /\ orphans = EmptyBag
  /\ launched = FALSE /\ closed = 0 /\ accum = <<>> /\ limitAt = 0
  /\ delays = 0
  /\ navFailed = FALSE /\ detailCall = NoCall
  /\ NoScroll /\ NoIdCall /\ NoDedupCall /\ NoSideCall

Next ==
  \/ \E n \in 0..MaxUrls, det \in DetailedChoices :
       Invoke(n, det, "undefined")
  \/ NextUrl
  \/ LoadListing
  \/ \E i \in 1..MaxCards : TaskNewPage(i)
  \/ \E i \in 1..MaxCards : TaskFinish(i)
  \/ \E l \in BagToSet(orphans) : OrphanNewPage(l)
  \/ \E l \in BagToSet(orphans) : OrphanFinish(l)
  \/ CloseListing
  \/ Finally

Spec == Init /\ [][Next]_vars


\* a scraper as constructed, whatever its configuration
Constructed ==
  /\ browser = "null" /\ context = "null"
  /\ browserOpen = FALSE /\ listingOpen = 0 /\ leakedDetail = 0
  /\ pc = "idle" /\ outcome = "none" /\ nUrls = 0 /\ urlIdx = 0
  /\ url = {} /\ detailed = "undefined" /\ category = "undefined"
  /\ allItems = <<>>
  /\ cards = <<>> /\ basicItemsData = <<>> /\ tasks = <<>> /\ items = <<>>
  /\ orphans = EmptyBag
  /\ launched = FALSE /\ closed = 0 /\ accum = <<>> /\ limitAt = 0
  /\ delays = 0
  /\ navFailed = FALSE /\ detailCall = NoCall

\* ------------------------------- the crawl under every value of the option
OptionInit ==
  /\ maxItemsPerUrl = MaxCards /\ totalItemsLimit = 1
  /\ concurrencyLimit \in 1..MaxCards
  /\ Constructed /\ NoScroll /\ NoIdCall /\ NoDedupCall /\ NoSideCall

OptionNext ==
  \/ \E n \in 0..MaxUrls, det \in DetailedOptions :
       Invoke(n, det, "undefined")
  \/ NextUrl
  \/ LoadListing
  \/ \E i \in 1..MaxCards : TaskNewPage(i)
  \/ \E i \in 1..MaxCards : TaskFinish(i)
  \/ \E l \in BagToSet(orphans) : OrphanNewPage(l)
  \/ \E l \in BagToSet(orphans) : OrphanFinish(l)
  \/ CloseListing
  \/ Finally

OptionSpec == OptionInit /\ [][OptionNext]_vars

\* ----------------------------- the crawl under every value of the category
CategoryInit ==
  /\ maxItemsPerUrl = MaxCards /\ totalItemsLimit = MaxTotal
  /\ concurrencyLimit = 1
  /\ Constructed /\ NoScroll /\ NoIdCall /\ NoDedupCall /\ NoSideCall

CategoryNext ==
  \/ \E n \in 0..MaxUrls, det \in DetailedChoices, cat \in Categories :
       Invoke(n, det, cat)
  \/ NextUrl
  \/ LoadListing
  \/ \E i \in 1..MaxCards : TaskNewPage(i)
  \/ \E i \in 1..MaxCards : TaskFinish(i)
  \/ \E l \in BagToSet(orphans) : OrphanNewPage(l)
  \/ \E l \in BagToSet(orphans) : OrphanFinish(l)
  \/ CloseListing
  \/ Finally

CategorySpec == CategoryInit /\ [][CategoryNext]_vars

\* no scrapeMultipleUrls call is followed
NoCrawl ==
  /\ maxItemsPerUrl = 1 /\ totalItemsLimit = 1 /\ concurrencyLimit = 1
  /\ Constructed

\* --------------------------------------------------------- scrollToLoadMore
\* const maxScrollAttempts = 20
maxScrollAttempts == 20
\* largest document.body.scrollHeight the page reports
MaxHeight == 1
\* loop iterations followed (the loop itself has no such cap)
MaxIter == 22

Heights == 0..MaxHeight
\* the platform argument: the two with a control, and one without
Platforms == {"linkedin", "indeed", "facebook"}
\* what the locator of the show-more / next-page control finds at a check:
\* count() = 0, count() > 0 but not visible, count() > 0 and visible
Controls == {"absent", "hidden", "visible"}
HasControl(platform) == platform \in {"linkedin", "indeed"}

\* (mutant) the height is taken as unchanged whatever was measured
HeightUnchangedAlways(h, prev) == TRUE

\* currentHeight === previousHeight
HeightUnchanged(h, prev) == h = prev

\* (mutant) previousHeight is not updated after a scroll that grew the page
RememberHeightForgotten(h, prev) == prev

\* previousHeight = currentHeight
RememberHeight(h, prev) == h

\* the click on a visible control, then `continue`: the next iteration starts
\* with previousHeight and scrollAttempts as they were
ClickAndContinue ==
  /\ controlSeen' = TRUE /\ clicked' = TRUE
  /\ UNCHANGED <<scrollPc, previousHeight, scrollAttempts>>

\* "Reached the end of the listings": break.  b is what the locator found
\* ("absent" also for a platform without control handling)
EndOfListings(b) ==
  /\ scrollPc' = "done" /\ clicked' = FALSE
  /\ controlSeen' = (controlSeen \/ b # "absent")
  /\ UNCHANGED <<previousHeight, scrollAttempts>>

\* one pass through the body of while (scrollAttempts < maxScrollAttempts)
ScrollIteration ==
  /\ scrollPc = "loop"
  /\ scrollAttempts < maxScrollAttempts
  /\ iterations < MaxIter
  /\ iterations' = iterations + 1
  /\ UNCHANGED <<crawlVars, idVars, dedupVars, sideVars, scrollPlatform>>
  /\ \E h \in Heights :
       /\ measured' = measured \cup {h}
       /\ currentHeight' = h
       /\ IF HeightUnchanged(h, previousHeight)
          THEN IF HasControl(scrollPlatform)
               THEN \E b \in Controls :
                      /\ lookup' = b
                      /\ IF b = "visible" THEN ClickAndContinue
                         ELSE EndOfListings(b)
               ELSE lookup' = "none" /\ EndOfListings("absent")
          ELSE /\ previousHeight' = RememberHeight(h, previousHeight)
               /\ scrollAttempts' = scrollAttempts + 1
               /\ lookup' = "none" /\ clicked' = FALSE
               /\ UNCHANGED <<scrollPc, controlSeen>>

\* the loop condition fails: "Finished scrolling after 20 attempts"
ScrollExit ==
  /\ scrollPc = "loop"
  /\ scrollAttempts >= maxScrollAttempts
  /\ scrollPc' = "done"
  /\ UNCHANGED <<crawlVars, idVars, dedupVars, sideVars, scrollPlatform,
                 previousHeight, scrollAttempts, iterations, measured,
                 controlSeen, currentHeight, lookup, clicked>>

\* an awaited call of the body (page.evaluate, count, isVisible, click)
\* raises: the iteration is cut short and scrollToLoadMore rejects
ScrollRaise ==
  /\ scrollPc = "loop"
  /\ scrollAttempts < maxScrollAttempts
  /\ iterations < MaxIter
  /\ iterations' = iterations + 1
  /\ scrollPc' = "raised"
  /\ UNCHANGED <<crawlVars, idVars, dedupVars, sideVars, scrollPlatform,
                 previousHeight, scrollAttempts, measured, controlSeen,
                 currentHeight, lookup, clicked>>

\* scrollToLoadMore(page, platform) entered: previousHeight = 0,
\* scrollAttempts = 0
ScrollInit ==
  /\ NoCrawl /\ NoIdCall /\ NoDedupCall /\ NoSideCall
  /\ scrollPc = "loop" /\ scrollPlatform \in Platforms
  /\ previousHeight = 0 /\ scrollAttempts = 0
  /\ iterations = 0 /\ measured = {} /\ controlSeen = FALSE
  /\ currentHeight = 0 /\ lookup = "none" /\ clicked = FALSE

ScrollNext ==
  \/ ScrollIteration
  \/ ScrollExit
  \/ ScrollRaise

\* the runtime resumes the function after every await that settles
ScrollSpec == ScrollInit /\ [][ScrollNext]_vars /\ WF_vars(ScrollNext)


\* ------------------------------------------------- extractLinkedInId, alone
IdReturn ==
  /\ idPc = "called"
  /\ idPc' = "returned"
  /\ itemId' = extractLinkedInId(urlOrUrn)
  /\ UNCHANGED <<crawlVars, scrollVars, dedupVars, sideVars, urlOrUrn>>

IdInit ==
  /\ NoCrawl /\ NoScroll /\ NoDedupCall /\ NoSideCall
  /\ idPc = "called" /\ urlOrUrn \in Strings /\ itemId = <<>>

IdNext == IdReturn

IdSpec == IdInit /\ [][IdNext]_vars

\* ------------------------------------- the basic extraction of one listing
AllCardLists == UNION {[1..n -> Cards] : n \in 1..MaxCards}

\* scrapeFromUrl from page.$$ to the end of the basic loop, on the cards cs
\* of a listing of URL u
ExtractCards ==
  /\ pc = "idle" /\ cards = <<>>
  /\ \E u \in Urls \ {{}}, cs \in AllCardLists :
       /\ url' = u
       /\ cards' = cs
       /\ basicItemsData' = ExtractBasics(cs, detectPlatform(u), 1)
  /\ UNCHANGED <<cfgVars, objVars, envVars, pc, outcome, nUrls, urlIdx,
                 detailed, category, allItems, tasks, items, orphans, obsVars, fnVars>>

CardInit ==
  /\ maxItemsPerUrl \in 1..MaxCards
  /\ totalItemsLimit = 1 /\ concurrencyLimit = 1
  /\ Constructed /\ NoScroll /\ NoIdCall /\ NoDedupCall /\ NoSideCall

CardNext == ExtractCards

CardSpec == CardInit /\ [][CardNext]_vars

\* --------------------------------------------------------- deduplicateItems
\* longest list handed to deduplicateItems
MaxItems == 2

\* An id is a value with its type: Set.has compares both.
ItemIds == {[t |-> "string", v |-> 35], [t |-> "string", v |-> 36],
            [t |-> "number", v |-> 35], [t |-> "null", v |-> 0]}
\* scraped items (two may share an id) and rows of the database
ScrapedItems == [id : ItemIds, title : {"a", "b"}]
ExistingItems == [id : ItemIds, title : {"a"}]
ListsOf(rows) == UNION {[1..n -> rows] : n \in 0..MaxItems}

\* new Set(existingItems.map((item) => item.id))
ExistingItemIds(existing) == {existing[i].id : i \in 1..Len(existing)}

\* (mutant) ids are compared by value only, as == would
HasLoose(ids, id) == \E x \in ids : x.v = id.v

\* existingItemIds.has(item.id)
Has(ids, id) == id \in ids

\* scrapedItems.filter((item) => !existingItemIds.has(item.id))
RECURSIVE FilterNew(_, _, _)
FilterNew(scraped, ids, i) ==
  IF i > Len(scraped) THEN <<>>
  ELSE (IF Has(ids, scraped[i].id) THEN <<>> ELSE <<scraped[i]>>)
         \o FilterNew(scraped, ids, i + 1)

\* (mutant) the kept items are collected at the front (unshift)
RECURSIVE FilterNewUnshift(_, _, _)
FilterNewUnshift(scraped, ids, i) ==
  IF i > Len(scraped) THEN <<>>
  ELSE FilterNewUnshift(scraped, ids, i + 1)
         \o (IF Has(ids, scraped[i].id) THEN <<>> ELSE <<scraped[i]>>)
deduplicateItemsUnshift(scraped, existing) ==
  FilterNewUnshift(scraped, ExistingItemIds(existing), 1)

deduplicateItems(scraped, existing) ==
  FilterNew(scraped, ExistingItemIds(existing), 1)

\* newItems = deduplicateItems(scrapedItems, existingItems): filter and map
\* build new arrays, the arguments stay as they are
Dedup ==
  /\ dedupPc = "called"
  /\ dedupPc' = "returned"
  /\ newItems' = deduplicateItems(scrapedItems, existingItems)
  /\ UNCHANGED <<crawlVars, scrollVars, idVars, sideVars, scrapedItems, existingItems,
                 newItemsAgain>>

\* deduplicateItems(newItems, existingItems)
DedupAgain ==
  /\ dedupPc = "returned"
  /\ dedupPc' = "again"
  /\ newItemsAgain' = deduplicateItems(newItems, existingItems)
  /\ UNCHANGED <<crawlVars, scrollVars, idVars, sideVars, scrapedItems, existingItems,
                 newItems>>

DedupInit ==
  /\ NoCrawl /\ NoScroll /\ NoIdCall /\ NoSideCall
  /\ dedupPc = "called"
  /\ scrapedItems \in ListsOf(ScrapedItems)
  /\ existingItems \in ListsOf(ExistingItems)
  /\ newItems = <<>> /\ newItemsAgain = <<>>

DedupNext ==
  \/ Dedup
  \/ DedupAgain

DedupSpec == DedupInit /\ [][DedupNext]_vars

\* ------------------------------------------------------------ insertRecords
\* DatabaseClient.insertRecords in its implementations: one create call per
\* record (src/services/database-client.js and the first client of
\* part_004) and one bulk post per batch (the second client of part_004).
MaxRecords == 3
\* the batchSize argument of the batched implementation (20 when omitted)
MaxBatch == 2
Implementations == {"perRecord", "batched"}
RecordLists == UNION {[1..n -> {"35", "36"}] : n \in 0..MaxRecords}

\* for (let i = 0; i < records.length; i += batchSize): the number of batches
NumBatches(recs, size) == (Len(recs) + size - 1) \div size
\* records.slice(i, i + batchSize) for the k-th batch: its positions in
\* records, and the slice
BatchAt(recs, size, k) == ((k - 1) * size + 1)..Min(k * size, Len(recs))
Slice(recs, size, k) ==
  SubSeq(recs, (k - 1) * size + 1, Min(k * size, Len(recs)))

\* if (!records || records.length === 0) return []
InsertEnter ==
  /\ insPc = "called"
  /\ IF Len(records) = 0
     THEN insPc' = "returned" /\ insReturn' = <<>>
     ELSE insPc' = "loop" /\ UNCHANGED insReturn
  /\ UNCHANGED <<insImpl, records, batchSize, insIdx, attempted,
                 insertedRecords, written>>
  /\ UNCHANGED frameInsert

\* one turn of the loop over the records: the create call is in a try of its
\* own, whose catch logs the error
CreateRecord ==
  /\ insPc = "loop" /\ insImpl = "perRecord" /\ insIdx < Len(records)
  /\ insIdx' = insIdx + 1
  /\ attempted' = attempted \cup {insIdx + 1}
  /\ \/ \* the record is created: insertedRecords.push(response)
        /\ written' = Append(written, records[insIdx + 1])
        /\ insertedRecords' = Append(insertedRecords, records[insIdx + 1])
     \/ \* dbTableRow.create raises: the error is logged
        UNCHANGED <<insertedRecords, written>>
  /\ UNCHANGED <<insPc, insImpl, records, batchSize, insReturn>>
  /\ UNCHANGED frameInsert

\* one turn of the loop over the batches: the post is guarded only by the try
\* around the whole function, whose catch returns []
PostBatch ==
  /\ insPc = "loop" /\ insImpl = "batched"
  /\ insIdx < NumBatches(records, batchSize)
  /\ insIdx' = insIdx + 1
  /\ attempted' = attempted \cup BatchAt(records, batchSize, insIdx + 1)
  /\ \/ \* the batch is written: insertedRecords.push(...response.data)
        /\ written' = written \o Slice(records, batchSize, insIdx + 1)
        /\ insertedRecords' =
             insertedRecords \o Slice(records, batchSize, insIdx + 1)
        /\ UNCHANGED <<insPc, insReturn>>
     \/ \* client.post raises: the outer catch logs and returns []
        /\ insPc' = "returned" /\ insReturn' = <<>>
        /\ UNCHANGED <<insertedRecords, written>>
  /\ UNCHANGED <<insImpl, records, batchSize>>
  /\ UNCHANGED frameInsert

\* the loop is over: return insertedRecords
InsertReturn ==
  /\ insPc = "loop"
  /\ insIdx = (IF insImpl = "perRecord" THEN Len(records)
               ELSE NumBatches(records, batchSize))
  /\ insPc' = "returned" /\ insReturn' = insertedRecords
  /\ UNCHANGED <<insImpl, records, batchSize, insIdx, attempted,
                 insertedRecords, written>>
  /\ UNCHANGED frameInsert

InsertInit ==
  /\ NoCrawl /\ NoScroll /\ NoIdCall /\ NoDedupCall
  /\ insPc = "called" /\ insImpl \in Implementations
  /\ records \in RecordLists
  /\ batchSize \in (IF insImpl = "batched" THEN 1..MaxBatch ELSE {0})
  /\ insIdx = 0 /\ attempted = {} /\ insertedRecords = <<>>
  /\ insReturn = <<>> /\ written = <<>>
  /\ NoRun /\ NoSharing /\ NoDetailCall /\ NoExtraCall

InsertNext ==
  \/ InsertEnter
  \/ CreateRecord
  \/ PostBatch
  \/ InsertReturn

InsertSpec == InsertInit /\ [][InsertNext]_vars


\* ------------------------------------------------------ scrapeAndStoreItems
\* The job of src/config/config.js: for each platform group of the search
\* configurations, scrape, read the existing rows, deduplicate, insert.  Two
\* runs may be in progress at once: the /run-scraper handler and the
\* scheduler start a run without looking at the runs in progress.
\* platform groups of the search configurations
MaxGroups == 1
\* items a scrapeMultipleUrls call returns
MaxScraped == 2
\* limit: 1000 of getExistingRecords
pageLimit == 1000

Posting(n) == [id |-> [t |-> "string", v |-> n], title |-> "a"]
Postings == {Posting(35), Posting(36)}
ScrapeResults == UNION {[1..n -> Postings] : n \in 0..MaxScraped}
\* the tables the runs start from (no id twice)
Stores == {<<>>, <<Posting(35)>>, <<Posting(36)>>, <<Posting(35), Posting(36)>>}
Row(item, r) == [id |-> item.id, title |-> item.title, by |-> r]

\* dbViewRow.list(..., {offset: 0, limit: 1000}): response.list
ListRows(rows) == SubSeq(rows, 1, Min(Len(rows), pageLimit))

\* the for loop goes to the next platform group, or the run is over
NextGroup(r, st) ==
  [st EXCEPT !.groups = st.groups - 1,
             !.pc = IF st.groups > 1 THEN "scrape" ELSE "done"]

\* scrapeAndStoreItems() is called: getSearchConfigurations() yields n groups
Trigger(r, n) ==
  /\ run[r].pc = "idle"
  /\ run' = [run EXCEPT ![r].groups = n,
                         ![r].pc = IF n > 0 THEN "scrape" ELSE "done"]
  /\ UNCHANGED store
  /\ UNCHANGED frameStore

\* await scraper.scrapeMultipleUrls(urls, options)
Scraped(r) ==
  /\ run[r].pc = "scrape"
  /\ \/ \E items2 \in ScrapeResults :
          run' = [run EXCEPT ![r].scrapedItems = items2, ![r].pc = "read",
                             ![r].existingItems = <<>>,
                             ![r].newItems = <<>>, ![r].idx = 0]
     \/ \* scrapeMultipleUrls raises: the catch of the job logs
        run' = [run EXCEPT ![r].pc = "done"]
  /\ UNCHANGED store
  /\ UNCHANGED frameStore

\* await database.getExistingRecords(), then deduplicateItems
ReadExisting(r) ==
  /\ run[r].pc = "read"
  /\ \E existing \in {ListRows(store), <<>>} :
       \* <<>>: a call of the client raised, its catch returns []
       LET new == deduplicateItems(run[r].scrapedItems, existing)
           st == [run[r] EXCEPT !.existingItems = existing, !.newItems = new]
       IN run' = [run EXCEPT ![r] = IF Len(new) > 0
                                    THEN [st EXCEPT !.pc = "insert"]
                                    ELSE NextGroup(r, st)]
  /\ UNCHANGED store
  /\ UNCHANGED frameStore

\* one turn of the loop of database.insertRecords(newItems)
InsertItem(r) ==
  /\ run[r].pc = "insert"
  /\ LET i == run[r].idx + 1
         st == [run[r] EXCEPT !.idx = i]
     IN /\ \/ store' = Append(store, Row(run[r].newItems[i], r))
           \/ \* dbTableRow.create raises: logged
              UNCHANGED store
        /\ run' = [run EXCEPT ![r] = IF i = Len(run[r].newItems)
                                     THEN NextGroup(r, st) ELSE st]
  /\ UNCHANGED frameStore

StoreInit ==
  /\ NoCrawl /\ NoScroll /\ NoIdCall /\ NoDedupCall /\ NoInsertCall
  /\ NoSharing /\ NoDetailCall /\ NoExtraCall
  /\ store \in {[i \in 1..Len(t) |-> Row(t[i], 0)] : t \in Stores}
  /\ run = [r \in Runs |-> NotTriggered]

StoreNext ==
  \/ \E r \in Runs, n \in 0..MaxGroups : Trigger(r, n)
  \/ \E r \in Runs : Scraped(r)
  \/ \E r \in Runs : ReadExisting(r)
  \/ \E r \in Runs : InsertItem(r)

StoreSpec == StoreInit /\ [][StoreNext]_vars


\* ----------------------------- two invocations on the same scraper object
\* scrapeMultipleUrls called twice on one UniversalScraper before the first
\* call is over.  Every await is a point where the other invocation may run.
\* A URL is taken in one step: scrapeFromUrl begins with
\* await this.context.newPage(), which raises when this.context is null or
\* its browser is closed.

\* this.context can open a page
ContextUsable == objContext # 0 /\ objContext \in openBrowsers

\* scrapeMultipleUrls(urls, options) is called with n URLs:
\* if (!this.browser) await this.initBrowser()
Call(a, n) ==
  /\ inv[a].pc = "idle"
  /\ inv' = [inv EXCEPT ![a].left = n,
                         ![a].pc = IF objBrowser = 0 THEN "launch"
                                   ELSE "loop"]
  /\ UNCHANGED <<objBrowser, objContext, launchCount, openBrowsers>>
  /\ UNCHANGED frameSession

\* this.browser = await chromium.launch(...)
Launch(a) ==
  /\ inv[a].pc = "launch"
  /\ \/ /\ launchCount' = launchCount + 1
        /\ openBrowsers' = openBrowsers \cup {launchCount + 1}
        /\ objBrowser' = launchCount + 1
        /\ inv' = [inv EXCEPT ![a].pc = "context",
                               ![a].mine = launchCount + 1]
     \/ \* launch raises, outside every try: the invocation is over
        /\ inv' = [inv EXCEPT ![a].pc = "done"]
        /\ UNCHANGED <<objBrowser, launchCount, openBrowsers>>
  /\ UNCHANGED objContext
  /\ UNCHANGED frameSession

\* this.context = await this.browser.newContext(...), on the browser this
\* invocation has just assigned
NewContext(a) ==
  /\ inv[a].pc = "context"
  /\ IF inv[a].mine \in openBrowsers
     THEN /\ objContext' = inv[a].mine
          /\ inv' = [inv EXCEPT ![a].pc = "route"]
     ELSE \* the browser was closed meanwhile: newContext raises
          /\ inv' = [inv EXCEPT ![a].pc = "done"]
          /\ UNCHANGED objContext
  /\ UNCHANGED <<objBrowser, launchCount, openBrowsers>>
  /\ UNCHANGED frameSession

\* await this.context.route(...), three times
Route(a) ==
  /\ inv[a].pc = "route"
  /\ inv' = [inv EXCEPT ![a].pc = IF ContextUsable THEN "loop" ELSE "done"]
  /\ UNCHANGED <<objBrowser, objContext, launchCount, openBrowsers>>
  /\ UNCHANGED frameSession

\* one turn of the loop over the URLs, or its end
Url(a) ==
  /\ inv[a].pc = "loop"
  /\ IF inv[a].left = 0 THEN inv' = [inv EXCEPT ![a].pc = "finally"]
     ELSE IF ~ContextUsable
     THEN \* context.newPage() raises: the catch logs, the finally runs
          inv' = [inv EXCEPT ![a].pc = "finally"]
     ELSE \/ inv' = [inv EXCEPT ![a].left = inv[a].left - 1]
          \/ \* totalItemsLimit is reached: break
             inv' = [inv EXCEPT ![a].pc = "finally"]
  /\ UNCHANGED <<objBrowser, objContext, launchCount, openBrowsers>>
  /\ UNCHANGED frameSession

\* finally: if (this.browser) await this.browser.close() begins
FinallyBegin(a) ==
  /\ inv[a].pc = "finally"
  /\ inv' = [inv EXCEPT ![a].pc = IF objBrowser # 0 THEN "closing"
                                   ELSE "done",
                         ![a].closing = objBrowser]
  /\ UNCHANGED <<objBrowser, objContext, launchCount, openBrowsers>>
  /\ UNCHANGED frameSession

\* browser.close() is over: this.browser = null; this.context = null
FinallyEnd(a) ==
  /\ inv[a].pc = "closing"
  /\ inv' = [inv EXCEPT ![a].pc = "done"]
  /\ \/ /\ openBrowsers' = openBrowsers \ {inv[a].closing}
        /\ objBrowser' = 0 /\ objContext' = 0
     \/ \* browser.close() raises: the assignments after it are skipped
        UNCHANGED <<objBrowser, objContext, openBrowsers>>
  /\ UNCHANGED launchCount
  /\ UNCHANGED frameSession

SessionInit ==
  /\ NoCrawl /\ NoScroll /\ NoIdCall /\ NoDedupCall /\ NoInsertCall
  /\ NoRun /\ NoSharing /\ NoDetailCall /\ NoExtraCall

SessionNext ==
  \/ \E a \in Invocations, n \in 0..MaxUrls : Call(a, n)
  \/ \E a \in Invocations : Launch(a)
  \/ \E a \in Invocations : NewContext(a)
  \/ \E a \in Invocations : Route(a)
  \/ \E a \in Invocations : Url(a)
  \/ \E a \in Invocations : FinallyBegin(a)
  \/ \E a \in Invocations : FinallyEnd(a)

SessionSpec == SessionInit /\ [][SessionNext]_vars


\* ------------------------------- extractLinkedInDetailedData, field by field
\* .job-criteria-item elements and .job-detail-location-metadata elements
\* the detail page shows
MaxCriteria == 2
MaxWorkplace == 1

\* a criteria item: the text of its subheader and of its value, "null" when
\* item.$(...) finds no such element
Headers == {"Seniority level", "Employment type", "Industry", "Job function"}
CriteriaItems == [header : Headers \cup {"null"}, value : {"null", "Full-time"}]
WorkplaceTexts == {" Remote ", "Montreal"}
\* what page.$(selector) finds: no element ("null"), or its innerText
Found(texts) == {"null"} \cup texts
DetailPages ==
  [description : Found({"We build"}),
   criteria : UNION {[1..n -> CriteriaItems] : n \in 0..MaxCriteria},
   workplace : UNION {[1..n -> WorkplaceTexts] : n \in 0..MaxWorkplace},
   applicants : Found({"25 applicants"}),
   salary : Found({"$90k"})]

\* basicData as extractLinkedInBasicData builds it, with the company link
\* absent (null), a company page, or another page
CompanyUrls == {"null", "/company/acme", "/school/acme"}
BasicRecord(orgUrl) ==
  [id |-> "3544610012", title |-> "Engineer",
   url |-> "/jobs/view/3544610012", description |-> "",
   location |-> "Montreal", publishedAt |-> "2024-01-01",
   scrapedAt |-> "2024-01-02T00:00:00Z",
   source |-> [platform |-> "linkedin", type |-> "job", category |-> ""],
   organization |-> [name |-> "Acme", url |-> orgUrl, id |-> ""],
   details |-> [postedTime |-> "2 days ago"]]

\* element ? await element.innerText() : ""
TextOrEmpty(found) == IF found = "null" THEN "" ELSE found

\* the loop over criteriaItems for the header keyword kw: the value of the
\* last item with that header whose two elements exist, "" if there is none
RECURSIVE Criterion(_, _, _, _)
Criterion(items2, kw, i, acc) ==
  IF i > Len(items2) THEN acc
  ELSE IF items2[i].header = "null" \/ items2[i].value = "null"
       THEN Criterion(items2, kw, i + 1, acc)
  ELSE IF items2[i].header = kw
       THEN Criterion(items2, kw, i + 1, items2[i].value)
  ELSE Criterion(items2, kw, i + 1, acc)

\* text.includes("Remote") || ... and text.trim()
NamesWorkType(text) == text = " Remote "
Trim(text) == IF text = " Remote " THEN "Remote" ELSE text
\* the loop over workplaceTypes: the first text naming a work type, trimmed
RECURSIVE WorkType(_, _)
WorkType(texts, i) ==
  IF i > Len(texts) THEN ""
  ELSE IF NamesWorkType(texts[i]) THEN Trim(texts[i])
  ELSE WorkType(texts, i + 1)

\* basicData.organization.url.match(/\/company\/([^\/]+)/)
CompanyId(orgUrl) == IF orgUrl = "/company/acme" THEN "acme" ELSE ""

\* { ...a, ...b }
Spread(a, b) ==
  [k \in DOMAIN a \cup DOMAIN b |-> IF k \in DOMAIN b THEN b[k] ELSE a[k]]

\* the six details of the detail page
PageDetails(pg) ==
  [contractType |-> Criterion(pg.criteria, "Employment type", 1, ""),
   experienceLevel |-> Criterion(pg.criteria, "Seniority level", 1, ""),
   workType |-> WorkType(pg.workplace, 1),
   industry |-> Criterion(pg.criteria, "Industry", 1, ""),
   applicationsCount |-> TextOrEmpty(pg.applicants),
   salary |-> TextOrEmpty(pg.salary)]

\* (mutant) the details of basicData are not spread into the new details
EnrichedDetailsPageOnly(b, pg) == PageDetails(pg)

\* details: { ...basicData.details, contractType: ..., ... }
EnrichedDetails(b, pg) == Spread(b.details, PageDetails(pg))

\* the object returned from the try block
EnrichedRecord(b, pg) ==
  [b EXCEPT !.description = TextOrEmpty(pg.description),
            !.organization = [b.organization EXCEPT
                                !.id = CompanyId(b.organization.url)],
            !.details = EnrichedDetails(b, pg)]

\* every await succeeds: return { ...basicData, description, ... }
DetailReturn ==
  /\ detPc = "called"
  /\ detPc' = "returned" /\ detSuccess' = TRUE
  /\ detResult' = <<EnrichedRecord(basicData[1], detailPage[1])>>
  /\ UNCHANGED <<basicData, detailPage>>
  /\ UNCHANGED frameDetail

\* an await of the try block raises: the catch closes the page and returns
\* basicData, or its page.close() raises too
DetailCatch ==
  /\ detPc = "called"
  /\ detSuccess' = FALSE
  /\ \/ detPc' = "returned" /\ detResult' = basicData
     \/ detPc' = "raised" /\ UNCHANGED detResult
  /\ UNCHANGED <<basicData, detailPage>>
  /\ UNCHANGED frameDetail

DetailInit ==
  /\ NoCrawl /\ NoScroll /\ NoIdCall /\ NoDedupCall
  /\ NoInsertCall /\ NoRun /\ NoSharing /\ NoExtraCall
  /\ detPc = "called"
  /\ basicData \in {<<BasicRecord(u)>> : u \in CompanyUrls}
  /\ detailPage \in {<<pg>> : pg \in DetailPages}
  /\ detResult = <<>> /\ detSuccess = FALSE

DetailNext ==
  \/ DetailReturn
  \/ DetailCatch

DetailSpec == DetailInit /\ [][DetailNext]_vars

\* ------------------------------------------------------- randomized waits
\* Math.random() returns k / RandomSteps for some k in 0..RandomSteps-1
RandomSteps == 32

\* the defaults of randomDelay(min = 2000, max = 5000)
randomDelayDefaults == [min |-> 2000, max |-> 5000]

\* the call sites of randomDelay and the arguments each passes (<<>>: none)
CallSites ==
  { [site |-> "afterScroll", args |-> <<1000, 2000>>],
    [site |-> "linkedinShowMore", args |-> <<>>],
    [site |-> "indeedNextPage", args |-> <<3000, 5000>>],
    [site |-> "afterDetailLoad", args |-> <<1000, 3000>>],
    [site |-> "betweenUrls", args |-> <<5000, 10000>>] }

\* the parameters of a call with the given arguments
MinOf(args) == IF Len(args) >= 1 THEN args[1] ELSE randomDelayDefaults.min
MaxOf(args) == IF Len(args) >= 2 THEN args[2] ELSE randomDelayDefaults.max

\* Math.floor(Math.random() * (max - min + 1)) + min
DelayNoOffset(k, min, max) == (k * (max - min + 1)) \div RandomSteps
Delay(k, min, max) == ((k * (max - min + 1)) \div RandomSteps) + min

\* randomDelay is called from a call site and draws its delay
RandomDelay(c, k) ==
  /\ dlPc = "idle"
  /\ dlPc' = "waiting" /\ dlSite' = c.site
  /\ dlMin' = MinOf(c.args) /\ dlMax' = MaxOf(c.args)
  /\ delay' = Delay(k, MinOf(c.args), MaxOf(c.args))
  /\ UNCHANGED frameDelay

\* the timer fires and the promise resolves
Elapsed ==
  /\ dlPc = "waiting"
  /\ dlPc' = "idle"
  /\ UNCHANGED <<dlSite, dlMin, dlMax, delay>>
  /\ UNCHANGED frameDelay

DelayInit ==
  /\ NoCrawl /\ NoScroll /\ NoIdCall /\ NoDedupCall
  /\ NoInsertCall /\ NoRun /\ NoSharing /\ NoDetailCall
  /\ dlPc = "idle" /\ dlSite = "none" /\ dlMin = 0 /\ dlMax = 0 /\ delay = 0
  /\ NoDetectCall /\ NoWorkTypeLoop /\ NoConfigs

DelayNext ==
  \/ \E c \in CallSites, k \in 0..(RandomSteps - 1) : RandomDelay(c, k)
  \/ Elapsed

DelaySpec == DelayInit /\ [][DelayNext]_vars

\* ------------------------------------------------------ platform detection
MaxUrlPieces == 3

\* A URL string is a sequence of pieces; the patterns are unanchored and
\* case-insensitive (/linkedin\.com/i, /indeed\.com/i) with an escaped dot.
UrlPieces == {"linkedin.com", "LinkedIn.COM", "indeed.com", "INDEED.com",
              "linkedinxcom", "example.org"}

UrlStrings == UNION {[1..n -> UrlPieces] : n \in 0..MaxUrlPieces}

\* the lower-case form the /i flag compares
Lower(piece) ==
  CASE piece = "LinkedIn.COM" -> "linkedin.com"
    [] piece = "INDEED.com" -> "indeed.com"
    [] OTHER -> piece

\* urlPattern.test(url), for each pattern of the registry: the pattern texts
\* the URL contains
Hits(str) ==
  {platformPatterns[i].urlPattern : i \in 1..Len(platformPatterns)}
    \cap {Lower(str[k]) : k \in 1..Len(str)}

\* detectPlatform(url) returns
DetectReturn ==
  /\ dtPc = "called"
  /\ dtPc' = "returned"
  /\ dtPlatform' = detectPlatform(Hits(dtUrl))
  /\ UNCHANGED <<dtUrl, frameDetect>>

DetectInit ==
  /\ NoCrawl /\ NoScroll /\ NoIdCall /\ NoDedupCall
  /\ NoInsertCall /\ NoRun /\ NoSharing /\ NoDetailCall /\ NoDelayCall
  /\ dtPc = "called" /\ dtUrl \in UrlStrings /\ dtPlatform = "none"
  /\ NoWorkTypeLoop /\ NoConfigs

DetectNext == DetectReturn

DetectSpec == DetectInit /\ [][DetectNext]_vars

\* ------------------------------------------------- the work type of a page
\* .job-detail-location-metadata elements the detail page shows
MaxElements == 3

\* innerText of an element, a sequence of pieces; Space is white space
Space == " "
ElementTexts ==
  { <<Space, "Remote", Space>>, <<"On-site">>, <<"Hybrid", Space, "Montreal">>,
    <<"Montreal", Space>>, <<"remote">>, <<>> }

ElementLists == UNION {[1..n -> ElementTexts] : n \in 0..MaxElements}

\* (mutant) only "Remote" is looked for
MentionsRemote(text) == Includes(text, "Remote")

\* text.includes("Remote") || text.includes("On-site") ||
\* text.includes("Hybrid")
MentionsWorkType(text) ==
  Includes(text, "Remote") \/ Includes(text, "On-site")
    \/ Includes(text, "Hybrid")

\* text.trim()
TrimText(text) ==
  LET kept == {k \in 1..Len(text) : text[k] # Space}
  IN IF kept = {} THEN <<>>
     ELSE SubSeq(text, CHOOSE k \in kept : \A h \in kept : k <= h,
                       CHOOSE k \in kept : \A h \in kept : h <= k)

\* one pass of `for (const item of workplaceTypes)`: innerText() of the next
\* element, and the break when it names a work type
ReadElement ==
  /\ wtPc = "loop" /\ wtRead < Len(workplaceTypes)
  /\ wtRead' = wtRead + 1
  /\ IF MentionsWorkType(workplaceTypes[wtRead + 1])
     THEN workType' = TrimText(workplaceTypes[wtRead + 1]) /\ wtPc' = "after"
     ELSE UNCHANGED <<workType, wtPc>>
  /\ UNCHANGED <<workplaceTypes, frameWorkType>>

\* the elements are exhausted
ElementsExhausted ==
  /\ wtPc = "loop" /\ wtRead = Len(workplaceTypes)
  /\ wtPc' = "after"
  /\ UNCHANGED <<workplaceTypes, wtRead, workType, frameWorkType>>

WorkTypeInit ==
  /\ NoCrawl /\ NoScroll /\ NoIdCall /\ NoDedupCall
  /\ NoInsertCall /\ NoRun /\ NoSharing /\ NoDetailCall
  /\ NoDelayCall /\ NoDetectCall /\ NoConfigs
  /\ wtPc = "loop" /\ workplaceTypes \in ElementLists
  /\ wtRead = 0 /\ workType = <<>>

WorkTypeNext ==
  \/ ReadElement
  \/ ElementsExhausted

WorkTypeSpec == WorkTypeInit /\ [][WorkTypeNext]_vars

\* ------------------------------- the configurations of one platform scraped
\* config.category of a search configuration
ConfigCategories == {"jobs", "internships"}

\* urlsBySource[platform]: one configuration for each URL
ConfigLists ==
  UNION {[1..n -> [category : ConfigCategories]] : n \in 1..MaxUrls}

\* scrapeAndStoreItems calls scraper.scrapeMultipleUrls(urls, options) with
\* urls = configs.map((config) => config.url) and
\* options = { detailed: true, category: configs[0].category }
ScrapePlatform == Invoke(Len(configs), "true", configs[1].category)

ConfigInit ==
  /\ maxItemsPerUrl = MaxCards /\ totalItemsLimit = MaxTotal
  /\ concurrencyLimit = 1
  /\ Constructed /\ NoScroll /\ NoIdCall /\ NoDedupCall
  /\ NoInsertCall /\ NoRun /\ NoSharing /\ NoDetailCall
  /\ NoDelayCall /\ NoDetectCall /\ NoWorkTypeLoop
  /\ configs \in ConfigLists

ConfigNext ==
  \/ ScrapePlatform
  \/ NextUrl
  \/ LoadListing
  \/ \E i \in 1..MaxCards : TaskNewPage(i)
  \/ \E i \in 1..MaxCards : TaskFinish(i)
  \/ \E l \in BagToSet(orphans) : OrphanNewPage(l)
  \/ \E l \in BagToSet(orphans) : OrphanFinish(l)
  \/ CloseListing
  \/ Finally

ConfigSpec == ConfigInit /\ [][ConfigNext]_vars


\* ================================================================ properties
\* pages of enrichment tasks that are executing
TaskPagesOpen == Count(tasks, "open") + SumOver(orphans, "p")

\* C1: when scrapeMultipleUrls completes, by return or by raising, the
\* browser it launched has been closed exactly once and is not open.
C1_BrowserClosedOnCompletion ==
  (pc = "done" /\ launched) => (~browserOpen /\ closed = 1)

\* C2: when scrapeMultipleUrls completes, by return or by raising, this.browser
\* and this.context are both null.
C2_ReferencesNullOnCompletion ==
  pc = "done" => (browser = "null" /\ context = "null")

\* C3: the accumulated list never holds more than totalItemsLimit records;
\* once the running total has reached the limit after a URL, the list is
\* exactly the first totalItemsLimit accumulated records and that URL is the
\* last one scrapeFromUrl was called for; the loop comes back to its head, and
\* a later URL is navigated to, only while the total is below the limit.
C3_TotalLimit ==
  /\ Len(allItems) <= totalItemsLimit
  /\ limitAt # 0 =>
       /\ pc \in {"finally", "done"}
       /\ urlIdx = limitAt
       /\ Len(accum) >= totalItemsLimit
       /\ allItems = SubSeq(accum, 1, totalItemsLimit)
  /\ (pc = "loop" /\ urlIdx >= 1) => Len(accum) < totalItemsLimit
  /\ (pc \in {"listing", "await", "closing"} /\ urlIdx > 1) =>
       Len(accum) < totalItemsLimit

\* C3 witness: the total passed the limit at the first of two URLs, the list
\* was cut and the call has returned.
C3_Witness ==
  /\ pc = "done" /\ outcome = "returned" /\ nUrls = 2 /\ limitAt = 1
  /\ totalItemsLimit >= 1 /\ Len(accum) > totalItemsLimit
  /\ Len(allItems) = totalItemsLimit

\* C4 (as claimed): a listing exposing more than maxItemsPerUrl cards gives
\* exactly maxItemsPerUrl basic records, and no listing gives more.
C4_ExactlyMaxItemsPerUrl ==
  cards # <<>> =>
    /\ Len(basicItemsData) <= maxItemsPerUrl
    /\ Len(cards) > maxItemsPerUrl => Len(basicItemsData) = maxItemsPerUrl

\* the cards among the first maxItemsPerUrl that yield a record
Yielding == {c \in 1..Min(Len(cards), maxItemsPerUrl) :
               url = {"linkedin.com"} /\ cards[c] = WellFormedCard}

\* C4 (amended): only the first maxItemsPerUrl cards of a listing are
\* processed; the basic records are those of the processed cards that yield
\* one, in card order, so never more than maxItemsPerUrl, and exactly
\* maxItemsPerUrl for a longer listing whose first maxItemsPerUrl cards all
\* yield a record.
C4_AtMostMaxItemsPerUrl ==
  cards # <<>> =>
    /\ Len(basicItemsData) <= maxItemsPerUrl
    /\ {basicItemsData[k].c : k \in 1..Len(basicItemsData)} = Yielding
    /\ Len(basicItemsData) = Cardinality(Yielding)
    /\ \A k \in 1..Len(basicItemsData) - 1 :
         basicItemsData[k].c < basicItemsData[k + 1].c

\* C4 witness: a listing with more cards than the cap gave exactly the cap.
C4_Witness ==
  /\ Len(cards) > maxItemsPerUrl /\ Len(basicItemsData) = maxItemsPerUrl

\* C5: at every instant of an invocation at most concurrencyLimit enrichment
\* tasks are executing.
C5_ExecutingAtMostLimit ==
  pc \notin {"idle", "done"} => Executing <= concurrencyLimit

\* C6: at every instant at most one listing page is open and at most
\* concurrencyLimit detail pages (here: those of executing tasks) are open.
C6_PagesBounded ==
  pc \notin {"idle", "done"} =>
    (listingOpen <= 1 /\ TaskPagesOpen <= concurrencyLimit)

\* C7: a failure confined to one card, detail page or URL (a page that cannot
\* be created or closed included) does not keep scrapeMultipleUrls from the
\* remaining URLs: when the call returns, scrapeFromUrl has been called for
\* every URL of the list unless the total limit stopped the loop (stated for
\* a positive limit, which no failed URL can reach by itself).
C7_FailureDoesNotStopLoop ==
  (pc = "done" /\ outcome = "returned" /\ totalItemsLimit >= 1) =>
    (urlIdx = nUrls \/ limitAt # 0)

\* C8: after a failed navigation or selector wait on a listing URL
\* scrapeFromUrl returns an empty list, the accumulated records stay as they
\* were and the loop goes on with the next URL: the loop is not left at a URL
\* whose listing failed to load unless that URL is the last (stated for a
\* positive limit, which an empty list cannot reach).
C8_ListingLoadFailureSkipsUrl ==
  (navFailed /\ totalItemsLimit >= 1) =>
    /\ items = <<>> /\ allItems = accum
    /\ pc \in {"finally", "done"} => urlIdx = nUrls

\* the step of NextUrl that calls scrapeFromUrl on a URL matching no pattern
UnsupportedStep == pc = "loop" /\ urlIdx' = urlIdx + 1 /\ NoPattern(url')

\* C9 (as claimed): for a URL matching no platform pattern scrapeFromUrl opens
\* no page, the accumulated records are unchanged and the loop continues.
C9_UnsupportedUrlSkipped ==
  [][UnsupportedStep =>
       /\ listingOpen' = listingOpen /\ allItems' = allItems
       /\ urlIdx' < nUrls => pc' = "loop"]_vars

\* C9 (amended): ... and the loop continues unless totalItemsLimit is 0, the
\* empty running total then having reached the limit already.
C9_UnsupportedUrlSkippedUnlessZeroLimit ==
  [][UnsupportedStep =>
       /\ listingOpen' = listingOpen /\ allItems' = allItems
       /\ items' = <<>> /\ tasks' = <<>>
       /\ IF totalItemsLimit = 0 THEN pc' = "finally" ELSE pc' = "loop"]_vars

\* C9 witness: the first of two URLs matched no pattern and the loop is back
\* at its head with records still to be gathered.
C9_Witness ==
  /\ pc = "loop" /\ urlIdx = 1 /\ nUrls = 2 /\ NoPattern(url)
  /\ totalItemsLimit >= 1

\* C10: an enrichment call that failed in newPage, goto or a read returned
\* the basic record it was given and left no page open.
C10_EnrichmentFallback ==
  detailCall.err \in {"newPage", "nav"} =>
    (detailCall.out = detailCall.in /\ ~detailCall.open)


\* C11: whatever heights the page reports and whatever the show-more /
\* next-page control does, scrollToLoadMore goes through its loop body at
\* most 20 times.
C11_AtMostTwentyIterations == iterations <= maxScrollAttempts

\* the page never showed two different heights nor a control
StaticPage == Cardinality(measured) <= 1 /\ ~controlSeen

\* C12: on a page whose measured height never changes and that has no
\* show-more / next-page control, on any platform, scrollToLoadMore has left
\* its loop (by the break, or by a call that raised) after two iterations at
\* most, well within the 20 attempts, and it does leave the loop.
C12_TerminatesOnStaticPage ==
  /\ [](StaticPage => /\ scrollAttempts <= 1
                      /\ iterations <= 2
                      /\ iterations = 2 => scrollPc # "loop")
  /\ <>(~StaticPage \/ scrollPc # "loop")

C12_Witness ==
  /\ StaticPage /\ scrollPc = "done" /\ scrollPlatform = "linkedin"
  /\ measured = {1} /\ iterations = 2 /\ scrollAttempts = 1


\* the forms of an input: it has the URN prefix; or else it has the job path
\* with digits right after it
UrnForm(s) == \E i \in 1..Len(s) : s[i] = UrnPrefix
PathForm(s) == /\ ~UrnForm(s)
               /\ \E i \in 1..Len(s) - 1 : s[i] = JobsView /\ s[i + 1] = Digits
HasColon(s) == \E i \in 1..Len(s) : s[i] \in {Colon, UrnPrefix}

\* t is what follows the last ':' of s
AfterLastColon(s, t) ==
  /\ ~HasColon(t)
  /\ \E i \in 1..Len(s) : /\ s[i] \in {Colon, UrnPrefix}
                          /\ t = SubSeq(s, i + 1, Len(s))

\* r is the digit run after the first job path of s that has one
RunAfterJobsView(s, r) ==
  \E i \in 1..Len(s) - 1 :
    /\ s[i] = JobsView /\ s[i + 1] = Digits
    /\ \A j \in 1..i - 1 : ~(s[j] = JobsView /\ s[j + 1] = Digits)
    /\ \E n \in 1..Len(s) - i :
         /\ r = [k \in 1..n |-> Digits]
         /\ \A k \in 1..n : s[i + k] = Digits
         /\ i + n < Len(s) => s[i + n + 1] # Digits

C13_IdNeverNull ==
  \A k \in 1..Len(basicItemsData) : basicItemsData[k].id # <<>>

\* a card all of whose required elements can be read
Readable(card) == card.link = "present" /\ card.lacks = "none"
Processed == 1..Min(Len(cards), maxItemsPerUrl)
RecordsOf(c) == {k \in 1..Len(basicItemsData) : basicItemsData[k].c = c}

\* C17: a processed card of which a required element cannot be read (link,
\* company-name, location, time) gives no record, and every other processed
\* card of the listing still gives its one record.
C17_MalformedCardDropped ==
  (cards # <<>> /\ url = {"linkedin.com"}) =>
    /\ \A c \in Processed :
         Cardinality(RecordsOf(c)) = (IF Readable(cards[c]) THEN 1 ELSE 0)
    /\ \A k \in 1..Len(basicItemsData) : basicItemsData[k].c \in Processed

C17_Witness ==
  /\ url = {"linkedin.com"} /\ maxItemsPerUrl = 2 /\ Len(cards) = 2
  /\ cards[1].link = "present" /\ cards[1].lacks = "time"
  /\ Readable(cards[2])
  /\ Len(basicItemsData) = 1 /\ basicItemsData[1].c = 2


\* the positions of scrapedItems whose id is the id of no existing item
Kept == {i \in 1..Len(scrapedItems) :
           \A j \in 1..Len(existingItems) : existingItems[j].id # scrapedItems[i].id}
\* the k-th of them
KeptAt(k) == CHOOSE i \in Kept : Cardinality({j \in Kept : j < i}) = k - 1

\* C14: deduplicateItems(S, E) returns exactly the elements of S whose id is
\* the id of no element of E (same type, same value), in the order of S, and
\* leaves S and E as they were.
C14_ExactlyTheNewItems ==
  /\ [](dedupPc = "returned" =>
          /\ Len(newItems) = Cardinality(Kept)
          /\ \A k \in 1..Len(newItems) : newItems[k] = scrapedItems[KeptAt(k)])
  /\ [][dedupPc' = "returned" =>
          scrapedItems' = scrapedItems /\ existingItems' = existingItems]_vars

C14_Witness ==
  /\ dedupPc = "returned"
  /\ Len(scrapedItems) = 2 /\ Len(existingItems) = 1
  /\ existingItems[1].id = [t |-> "number", v |-> 35]
  /\ scrapedItems[1].id = [t |-> "string", v |-> 35]
  /\ scrapedItems[2].id = [t |-> "number", v |-> 35]
  /\ newItems = <<scrapedItems[1]>>

\* C15: deduplicating the result again against the same existing items gives
\* the same list.
C15_DedupIdempotent == dedupPc = "again" => newItemsAgain = newItems

C15_Witness ==
  /\ dedupPc = "again"
  /\ Len(scrapedItems) = 2 /\ Len(newItems) = 2 /\ existingItems # <<>>
  /\ newItems[1] # newItems[2]
  /\ newItemsAgain = newItems


\* records in URL order and, within a URL, in card order
InCrawlOrder(recs) ==
  \A k \in 1..Len(recs) - 1 :
    \/ recs[k].u < recs[k + 1].u
    \/ recs[k].u = recs[k + 1].u /\ recs[k].c < recs[k + 1].c

\* C18: the result of scrapeMultipleUrls lists the records in URL iteration
\* order and, within a URL, in card order, in whatever order the concurrent
\* enrichments complete; so does every URL's own result.
C18_ResultInCrawlOrder ==
  /\ InCrawlOrder(allItems)
  /\ InCrawlOrder(items)
  /\ \A k \in 1..Len(items) : items[k].u = urlIdx
  /\ \A i \in 1..Len(tasks) :
       tasks[i].st = "done" =>
         tasks[i].res[1].u = tasks[i].basic.u /\ tasks[i].res[1].c = tasks[i].basic.c

C18_Witness ==
  /\ pc = "done" /\ outcome = "returned" /\ detailed = "undefined"
  /\ concurrencyLimit = 2 /\ nUrls = 2
  /\ Len(allItems) = 2
  /\ allItems[1].u = 2 /\ allItems[2].u = 2
  /\ allItems[1].details # BasicKeys /\ allItems[2].details = BasicKeys

\* C19: when scrapeFromUrl has returned, no page it or one of its detail
\* enrichments opened is still open.
C19_NoPageOpenAfterReturn ==
  pc = "loop" => (listingOpen = 0 /\ DetailOpen = 0)

C22_CategoryTagsEveryRecord ==
  \A k \in 1..Len(allItems) :
    allItems[k].category =
      (IF category \in {"undefined", "null"} THEN "" ELSE category)

\* a crawl with a category returned a record, enriched or not
C22_Witness ==
  /\ pc = "done" /\ outcome = "returned" /\ category = "jobs"
  /\ \E k \in 1..Len(allItems) : allItems[k].description # ""
  /\ \E k \in 1..Len(allItems) : allItems[k].description = ""

\* C23: scrapeFromUrl returns only after every enrichment task it submitted
\* has finished: once it has returned (the loop over the URLs goes on, or
\* the invocation is in its finally block or over) no enrichment task is
\* executing or queued.
C23_TasksFinishedOnReturn ==
  pc \in {"loop", "finally", "done"} => Executing + Waiting = 0

\* C21: a failing insertion does not keep insertRecords from attempting the
\* records after it: when insertRecords has returned, a create or a bulk post
\* was issued for every record of its input, in the per-record and in the
\* batched implementation.
C21_EveryRecordAttempted ==
  insPc = "returned" => attempted = 1..Len(records)

\* the ids of the rows created by run r, and of the rows that were there
\* before the runs
IdsBy(r) == {store[k].id : k \in {j \in 1..Len(store) : store[j].by = r}}

\* C24: scrapeAndStoreItems never inserts a record whose id is already in the
\* persisted store: no row created by a run has the id of a row that was
\* in the store before the runs.
C24_NoInsertOfPersistedId ==
  \A r \in Runs : IdsBy(r) \cap IdsBy(0) = {}

\* C25: when two runs of scrapeAndStoreItems overlap, no id is inserted into
\* the store twice: no id is the id of a row created by one run and of a
\* row created by the other.
C25_OverlappingRunsInsertOnce ==
  IdsBy(1) \cap IdsBy(2) = {}

\* C26: the records handed to insertRecords in one run have pairwise distinct
\* ids.
C26_HandedIdsDistinct ==
  \A r \in Runs :
    run[r].pc = "insert" =>
      \A i, j \in 1..Len(run[r].newItems) :
        run[r].newItems[i].id = run[r].newItems[j].id => i = j

\* C27: two overlapping invocations of scrapeMultipleUrls on one scraper
\* object do not interfere: once both are over every browser launched is
\* closed, and no step of one invocation closes the browser of, or sets to
\* null, the context that the other one, with URLs still to process, can
\* open pages on.
C27_OverlappingInvocationsDoNotInterfere ==
  [][/\ (\A a \in Invocations : inv'[a].pc = "done") => openBrowsers' = {}
     /\ \A a \in Invocations :
          (/\ inv[a].pc = "loop" /\ inv[a].left > 0 /\ ContextUsable
           /\ inv'[a] = inv[a]) => ContextUsable']_vars

\* C28: extractBasicData has an extractor for every platform detectPlatform
\* can return: a listing of a URL of a detected platform whose processed
\* cards are all well formed yields at least one record.
C28_DetectedPlatformYieldsRecords ==
  (/\ cards # <<>> /\ detectPlatform(url) # "null"
   /\ \A c \in Processed : Readable(cards[c])) => basicItemsData # <<>>

KeptFields == {"id", "title", "url", "location", "publishedAt", "scrapedAt",
               "source"}
\* the texts a field of an enriched record can hold
FieldTexts == {"", "We build", "Full-time", "Remote", "25 applicants", "$90k"}
\* the criteria items of the page that give the field of keyword kw a value
Giving(kw) ==
  {i \in 1..Len(detailPage[1].criteria) :
     /\ detailPage[1].criteria[i].header = kw
     /\ detailPage[1].criteria[i].value # "null"}

\* C30: on success extractLinkedInDetailedData returns a new record that
\* has the id, title, url, location, publishedAt, scrapedAt, source,
\* organization.name, organization.url and every details entry of the input;
\* its description and its six details contractType, experienceLevel,
\* workType, industry, applicationsCount and salary are present and are
\* strings, the empty string when the page has no element for them; and the
\* input record is as it was.
C30_EnrichmentAddsAndKeeps ==
  [][(detPc' = "returned" /\ detSuccess') =>
       LET in == basicData[1]
           out == detResult'[1]
           pg == detailPage[1] IN
       /\ basicData' = basicData
       /\ \A f \in KeptFields : out[f] = in[f]
       /\ out.organization.name = in.organization.name
       /\ out.organization.url = in.organization.url
       /\ \A k \in DOMAIN in.details :
            k \in DOMAIN out.details /\ out.details[k] = in.details[k]
       /\ out.description \in FieldTexts
       /\ \A k \in DetailKeys :
            k \in DOMAIN out.details /\ out.details[k] \in FieldTexts
       /\ pg.description = "null" => out.description = ""
       /\ pg.applicants = "null" => out.details.applicationsCount = ""
       /\ pg.salary = "null" => out.details.salary = ""
       /\ Giving("Employment type") = {} => out.details.contractType = ""
       /\ Giving("Seniority level") = {} => out.details.experienceLevel = ""
       /\ Giving("Industry") = {} => out.details.industry = ""
       /\ (\A i \in 1..Len(pg.workplace) : ~NamesWorkType(pg.workplace[i]))
            => out.details.workType = ""]_vars

\* an enrichment returned from its try block for a page with a description
\* and an employment type and without applicants, salary and work type
C30_Witness ==
  /\ detPc = "returned" /\ detSuccess
  /\ detailPage[1].description # "null" /\ detailPage[1].salary = "null"
  /\ detailPage[1].applicants = "null" /\ detailPage[1].workplace = <<>>
  /\ detResult[1].details.contractType = "Full-time"
  /\ detResult[1].details.salary = ""
  /\ detResult[1].details.postedTime = "2 days ago"
  /\ detResult[1].description = "We build"

\* C32: every non-null identifier extractLinkedInId returns is made of
\* decimal digits only, whatever the input.
C32_IdOnlyDigits ==
  (idPc = "returned" /\ itemId # <<>>) =>
    \A k \in 1..Len(itemId[1]) : itemId[1][k] = Digits

\* C33: whatever the outcome of each write, the sequence insertRecords
\* returns holds exactly the records written to the store, in the per-record
\* and in the batched implementation.
C33_ReturnsWhatWasWritten ==
  insPc = "returned" => insReturn = written

\* C34: an inter-URL delay is taken after a URL only when the cap has not
\* been reached and another URL remains: an invocation that has processed
\* every one of its k URLs without reaching the cap has taken k - 1 delays,
\* and no delay follows the URL at which the cap is reached.
C34_DelaysBetweenUrlsOnly ==
  /\ (/\ pc \in {"finally", "done"} /\ urlIdx = nUrls /\ nUrls >= 1
      /\ limitAt = 0 /\ Len(accum) < totalItemsLimit)
       => delays = nUrls - 1
  /\ limitAt # 0 => delays = limitAt - 1

\* the bounds the specification states for each call site
StatedBounds(site) ==
  CASE site = "afterScroll" -> <<1000, 2000>>
    [] site = "linkedinShowMore" -> <<3000, 5000>>
    [] site = "indeedNextPage" -> <<3000, 5000>>
    [] site = "afterDetailLoad" -> <<1000, 3000>>
    [] site = "betweenUrls" -> <<5000, 10000>>

\* C35 as stated: every randomized wait lies within the bounds of its call
\* site, 3000 to 5000 ms after activating the control on every platform.
C35_WaitWithinStatedBounds ==
  dlPc = "waiting" =>
    /\ StatedBounds(dlSite)[1] <= delay /\ delay <= StatedBounds(dlSite)[2]
    /\ dlMin <= delay /\ delay <= dlMax

\* the bounds of each call site, LinkedIn's show-more control waiting
\* between randomDelay's defaults
SiteBounds(site) ==
  IF site = "linkedinShowMore" THEN <<2000, 5000>> ELSE StatedBounds(site)

\* C35 (amended): every randomized wait lies within the bounds of its call
\* site: 1000 to 2000 ms after each scroll, 3000 to 5000 ms after
\* activating Indeed's next-page control and 2000 to 5000 ms after
\* activating LinkedIn's show-more control, 1000 to 3000 ms after a detail
\* page loads, 5000 to 10000 ms between URLs; randomDelay(min, max) waits
\* an integer number of milliseconds d with min <= d <= max.
C35_WaitWithinSiteBounds ==
  dlPc = "waiting" =>
    /\ delay \in Int
    /\ SiteBounds(dlSite)[1] <= delay /\ delay <= SiteBounds(dlSite)[2]
    /\ dlMin <= delay /\ delay <= dlMax

C35_Witness ==
  dlPc = "waiting" /\ dlSite = "linkedinShowMore" /\ delay < 3000

\* the URL contains a text the named pattern matches
PatternMatches(str, pattern) ==
  \E k \in 1..Len(str) : Lower(str[k]) = pattern

\* C36: detectPlatform returns the first platform, in registration order
\* (linkedin before indeed), whose pattern matches the URL, also when the URL
\* matches several patterns, and null when none matches; it changes no state
\* of the scraper.
C36_FirstRegisteredPlatformWins ==
  [][(dtPc = "called" /\ dtPc' = "returned") =>
       /\ dtPlatform' =
            (IF PatternMatches(dtUrl, "linkedin.com") THEN "linkedin"
             ELSE IF PatternMatches(dtUrl, "indeed.com") THEN "indeed"
             ELSE "null")
       /\ UNCHANGED <<cfgVars, objVars, envVars>>]_vars

C36_Witness ==
  /\ dtPc = "returned" /\ dtPlatform = "linkedin"
  /\ PatternMatches(dtUrl, "indeed.com") /\ dtUrl[1] = "INDEED.com"

\* the element texts that contain one of the three work-type words
Matching ==
  {k \in 1..Len(workplaceTypes) :
     \E w \in {"Remote", "On-site", "Hybrid"}, j \in 1..Len(workplaceTypes[k]) :
       workplaceTypes[k][j] = w}

\* t is text without the white space at its two ends
IsTrimOf(t, text) ==
  /\ t # <<>> => t[1] # Space /\ t[Len(t)] # Space
  /\ \E a \in 0..Len(text), b \in 0..Len(text) :
       /\ a + Len(t) + b = Len(text)
       /\ \A k \in 1..Len(text) :
            IF k <= a \/ k > a + Len(t) THEN text[k] = Space
            ELSE text[k] = t[k - a]

\* C37: the workType of an enriched record is the trimmed text of the first
\* location-metadata element, in document order, whose text contains
\* "Remote", "On-site" or "Hybrid"; elements after it are not read, and
\* workType is the empty string when no element matches.
C37_FirstWorkTypeElementWins ==
  wtPc = "after" =>
    IF Matching = {}
    THEN workType = <<>>
    ELSE LET first == CHOOSE k \in Matching : \A h \in Matching : k <= h
         IN /\ IsTrimOf(workType, workplaceTypes[first])
            /\ wtRead = first

C37_Witness ==
  /\ wtPc = "after" /\ Len(workplaceTypes) = 3
  /\ Matching = {2, 3}
  /\ workplaceTypes[2] = <<Space, "Remote", Space>> /\ workType = <<"Remote">>

\* C31: each record scraped by scrapeAndStoreItems is tagged with the
\* category of the search configuration whose URL produced it, for every
\* platform that has several configurations with different categories.
C31_RecordTaggedWithItsConfigCategory ==
  \A k \in 1..Len(allItems) :
    allItems[k].category = configs[allItems[k].u].category
====
